---- MODULE Spec2Model ----
(***************************************************************************)
(* Polygon_Intersection: the point / line / segment primitives, the        *)
(* point-in-polygon test and the polygon-pair classifier of polygon.cpp    *)
(* and polygon.c.                                                          *)
(*                                                                         *)
(* Numbers.  The program computes in IEEE doubles.  The inputs of the      *)
(* model are integer coordinates of small magnitude, for which every sum,  *)
(* difference and product the program forms is an integer that a double    *)
(* holds exactly; the only inexact operation is the division in            *)
(* Line::intersection and in the ray cast of Polygon::contains.  A double  *)
(* quotient is the correctly rounded rational quotient, rounding is        *)
(* monotone and keeps integers fixed, and two different quotients of the   *)
(* model differ by far more than a rounding error and than EPSILON.  The   *)
(* model therefore computes with exact rationals <<n, d>> (d > 0, lowest   *)
(* terms) and evaluates the tolerance test |a - b| < EPSILON exactly.      *)
(***************************************************************************)
EXTENDS Integers, Sequences, FiniteSets, TLC

VARIABLES poly1, poly2,        \* the two vertex lists handed to the classifier
          called,              \* the operations that have returned
          relationship, flags, \* Polygon::classify: returned label, locals at return
          relationshipC, flagsC, \* classifyPolygons: returned label, locals at return
          relationshipRev,     \* Polygon::classify with the arguments exchanged
          point, inside,       \* Polygon::contains: argument and returned value
          seg1, seg2,          \* LineSegment::intersection: the two segments
          hit12, hit21         \* ... and its outcome in either argument order

vars == <<poly1, poly2, called, relationship, flags, relationshipC, flagsC, relationshipRev,
          point, inside, seg1, seg2, hit12, hit21>>

(***************************************************************************)
(* Rational arithmetic standing for the program's double arithmetic.       *)
(***************************************************************************)
Abs(n) == IF n < 0 THEN -n ELSE n

RECURSIVE Gcd(_, _)
Gcd(m, n) == IF n = 0 THEN m ELSE Gcd(n, m % n)

Norm(n, d) ==
  IF d = 1 THEN <<n, 1>>
  ELSE LET g == Gcd(Abs(n), Abs(d))
           s == IF d < 0 THEN -1 ELSE 1
       IN  <<s * (n \div g), s * (d \div g)>>

Num(k) == <<k, 1>>
Add(p, q) == Norm(p[1] * q[2] + q[1] * p[2], p[2] * q[2])
Sub(p, q) == Norm(p[1] * q[2] - q[1] * p[2], p[2] * q[2])
Mul(p, q) == Norm(p[1] * q[1], p[2] * q[2])
Div(p, q) == Norm(p[1] * q[2], p[2] * q[1])
Less(p, q) == p[1] * q[2] < q[1] * p[2]
Leq(p, q) == p[1] * q[2] <= q[1] * p[2]
fabs(p) == <<Abs(p[1]), p[2]>>
fmin(p, q) == IF Less(q, p) THEN q ELSE p
fmax(p, q) == IF Less(p, q) THEN q ELSE p

EpsilonInverse == 1000000
EPSILON == <<1, EpsilonInverse>>

areEqual(a, b) == Less(fabs(Sub(a, b)), EPSILON)

(***************************************************************************)
(* Point, Line, LineSegment.                                               *)
(***************************************************************************)
Point(x, y) == [x |-> x, y |-> y]

pointsEqual(p, q) == areEqual(p.x, q.x) /\ areEqual(p.y, q.y)

createLine(p1, p2) ==
  [a |-> Sub(p2.y, p1.y),
   b |-> Sub(p1.x, p2.x),
   c |-> Sub(Mul(p2.x, p1.y), Mul(p1.x, p2.y))]

lineContains(line, p) ==
  areEqual(Add(Add(Mul(line.a, p.x), Mul(line.b, p.y)), line.c), Num(0))

\* Line::intersection from the guard on, with the determinant computed:
\* <<>> for "false, result untouched", <<pt>> for "true".
solveLines(line1, line2, determinant) ==
  IF areEqual(determinant, Num(0)) THEN <<>>
  ELSE <<Point(Div(Sub(Mul(line1.b, line2.c), Mul(line2.b, line1.c)), determinant),
               Div(Sub(Mul(line2.a, line1.c), Mul(line1.a, line2.c)), determinant))>>

lineIntersection(line1, line2) ==
  solveLines(line1, line2, Sub(Mul(line1.a, line2.b), Mul(line2.a, line1.b)))

LineSegment(p1, p2) == [p1 |-> p1, p2 |-> p2]

segmentContains(seg, p) ==
  LET line == createLine(seg.p1, seg.p2)
  IN  IF ~lineContains(line, p) THEN FALSE
      ELSE /\ Leq(fmin(seg.p1.x, seg.p2.x), p.x) /\ Leq(p.x, fmax(seg.p1.x, seg.p2.x))
           /\ Leq(fmin(seg.p1.y, seg.p2.y), p.y) /\ Leq(p.y, fmax(seg.p1.y, seg.p2.y))

\* LineSegment::intersection after the call of Line::intersection returned r:
\* <<>> when it returns false, <<pt>> when it returns true.
withinBoth(s1, s2, r) ==
  IF r = <<>> THEN <<>>
  ELSE IF segmentContains(s1, r[1]) /\ segmentContains(s2, r[1]) THEN r
  ELSE <<>>

\* Faulty variant (C8): the candidate point is tested against the first segment only.
withinFirst(s1, s2, r) ==
  IF r = <<>> THEN <<>>
  ELSE IF segmentContains(s1, r[1]) THEN r
  ELSE <<>>

segmentIntersectionFirstOnly(s1, s2) ==
  withinFirst(s1, s2, lineIntersection(createLine(s1.p1, s1.p2), createLine(s2.p1, s2.p2)))

segmentIntersection(s1, s2) ==
  withinBoth(s1, s2, lineIntersection(createLine(s1.p1, s1.p2), createLine(s2.p1, s2.p2)))

(***************************************************************************)
(* Polygon: edges and the point-in-polygon test.                           *)
(***************************************************************************)
getEdges(vertices) ==
  LET n == Len(vertices)
  IN  [i \in 1..n |-> LineSegment(vertices[i], vertices[(i % n) + 1])]

\* The loop of Polygon::contains from index i on, with `count` crossings so far:
\* containsFrom is the loop head, containsEdge the body on the edge v1-v2 and
\* containsRay the end of the body once xIntersect is computed.
RECURSIVE containsFrom(_, _, _, _)
RECURSIVE containsEdge(_, _, _, _, _, _)
RECURSIVE containsRay(_, _, _, _, _)

containsRay(vertices, p, i, count, xIntersect) ==
  IF areEqual(xIntersect, p.x) THEN TRUE
  ELSE containsFrom(vertices, p, i + 1, IF Less(p.x, xIntersect) THEN count + 1 ELSE count)

containsEdge(vertices, p, i, count, v1, v2) ==
  IF segmentContains(LineSegment(v1, v2), p) THEN TRUE
  ELSE IF areEqual(v1.y, v2.y) THEN containsFrom(vertices, p, i + 1, count)
  ELSE IF Less(p.y, fmin(v1.y, v2.y)) \/ Less(fmax(v1.y, v2.y), p.y)
       THEN containsFrom(vertices, p, i + 1, count)
  ELSE containsRay(vertices, p, i, count,
                   Add(Div(Mul(Sub(p.y, v1.y), Sub(v2.x, v1.x)), Sub(v2.y, v1.y)), v1.x))

containsFrom(vertices, p, i, count) ==
  IF i > Len(vertices) THEN count % 2 = 1
  ELSE containsEdge(vertices, p, i, count, vertices[i], vertices[(i % Len(vertices)) + 1])

polygonContains(vertices, p) == containsFrom(vertices, p, 1, 0)

areCollinear(s1, s2) ==
  LET line1 == createLine(s1.p1, s1.p2)
  IN  lineContains(line1, s2.p1) /\ lineContains(line1, s2.p2)

isBetween(a, b, c) == Leq(fmin(a, b), c) /\ Leq(c, fmax(a, b))

edgesOverlap(s1, s2) ==
  /\ \/ isBetween(s1.p1.x, s1.p2.x, s2.p1.x)
     \/ isBetween(s1.p1.x, s1.p2.x, s2.p2.x)
     \/ isBetween(s2.p1.x, s2.p2.x, s1.p1.x)
     \/ isBetween(s2.p1.x, s2.p2.x, s1.p2.x)
  /\ \/ isBetween(s1.p1.y, s1.p2.y, s2.p1.y)
     \/ isBetween(s1.p1.y, s1.p2.y, s2.p2.y)
     \/ isBetween(s2.p1.y, s2.p2.y, s1.p1.y)
     \/ isBetween(s2.p1.y, s2.p2.y, s1.p2.y)

\* Faulty variant (C6): an intersection at an endpoint counts as a crossing.
interiorCrossingAnyPoint(edge1, edge2) == segmentIntersection(edge1, edge2) # <<>>

\* The test of polygon.cpp:173-177 / polygon.c:158-162 on one edge pair, r being
\* what the segment intersection returned.
awayFromEndpoints(edge1, edge2, r) ==
  /\ r # <<>>
  /\ ~pointsEqual(edge1.p1, r[1]) /\ ~pointsEqual(edge1.p2, r[1])
  /\ ~pointsEqual(edge2.p1, r[1]) /\ ~pointsEqual(edge2.p2, r[1])

interiorCrossing(edge1, edge2) ==
  awayFromEndpoints(edge1, edge2, segmentIntersection(edge1, edge2))

Intersecting == "Intersecting"
Touching == "Touching"
DisjointEnclosed == "Disjoint (Enclosed)"
DisjointOutside == "Disjoint (Outside)"
Labels == {Intersecting, Touching, DisjointEnclosed, DisjointOutside}

(***************************************************************************)
(* Polygon::classify (polygon.cpp).  Each loop is a pair of recursions: the *)
(* inner one stops at the first hit (the break) and yields the flag as it   *)
(* then stands, the outer one goes on to the next edge with that flag.      *)
(***************************************************************************)
RECURSIVE vertexOnEdgeInner(_, _, _, _)
vertexOnEdgeInner(edge, vs, j, isTouching) ==
  IF j > Len(vs) THEN isTouching
  ELSE IF segmentContains(edge, vs[j]) THEN TRUE
  ELSE vertexOnEdgeInner(edge, vs, j + 1, isTouching)

RECURSIVE vertexOnEdgeLoop(_, _, _, _)
vertexOnEdgeLoop(edges, vs, i, isTouching) ==
  IF i > Len(edges) THEN isTouching
  ELSE IF vertexOnEdgeInner(edges[i], vs, 1, isTouching)
       THEN vertexOnEdgeLoop(edges, vs, i + 1, TRUE)
       ELSE vertexOnEdgeLoop(edges, vs, i + 1, FALSE)

\* Faulty variant (C5): collinear edges count as touching without the overlap test.
RECURSIVE collinearInnerNoOverlap(_, _, _, _)
collinearInnerNoOverlap(edge1, edges2, j, isTouching) ==
  IF j > Len(edges2) THEN isTouching
  ELSE IF areCollinear(edge1, edges2[j]) THEN TRUE
  ELSE collinearInnerNoOverlap(edge1, edges2, j + 1, isTouching)

RECURSIVE collinearInner(_, _, _, _)
collinearInner(edge1, edges2, j, isTouching) ==
  IF j > Len(edges2) THEN isTouching
  ELSE IF areCollinear(edge1, edges2[j]) /\ edgesOverlap(edge1, edges2[j]) THEN TRUE
  ELSE collinearInner(edge1, edges2, j + 1, isTouching)

RECURSIVE collinearLoop(_, _, _, _)
collinearLoop(edges1, edges2, i, isTouching) ==
  IF i > Len(edges1) THEN isTouching
  ELSE IF collinearInner(edges1[i], edges2, 1, isTouching)
       THEN collinearLoop(edges1, edges2, i + 1, TRUE)
       ELSE collinearLoop(edges1, edges2, i + 1, FALSE)

RECURSIVE crossingInner(_, _, _, _)
crossingInner(edge1, edges2, j, isIntersecting) ==
  IF j > Len(edges2) THEN isIntersecting
  ELSE IF interiorCrossing(edge1, edges2[j]) THEN TRUE
  ELSE crossingInner(edge1, edges2, j + 1, isIntersecting)

RECURSIVE crossingLoop(_, _, _, _)
crossingLoop(edges1, edges2, i, isIntersecting) ==
  IF i > Len(edges1) THEN isIntersecting
  ELSE IF crossingInner(edges1[i], edges2, 1, isIntersecting)
       THEN crossingLoop(edges1, edges2, i + 1, TRUE)
       ELSE crossingLoop(edges1, edges2, i + 1, FALSE)

\* polygon.cpp:196-201 and 203-208: every vertex of vs is contained in `within`.
RECURSIVE allInside(_, _, _)
allInside(vs, within, i) ==
  IF i > Len(vs) THEN TRUE
  ELSE IF ~polygonContains(within, vs[i]) THEN FALSE
  ELSE allInside(vs, within, i + 1)

\* The locals at the return: `inside` is <<>> when the function returned before
\* declaring thisInsideOther / otherInsideThis.
Outcome(label, isTouching, isIntersecting, ins) ==
  [label |-> label, isTouching |-> isTouching, isIntersecting |-> isIntersecting,
   inside |-> ins]

\* polygon.cpp:210-214, for a run that got past the two early returns.
containmentOutcome(isTouching, isIntersecting, thisInsideOther, otherInsideThis) ==
  Outcome(IF thisInsideOther \/ otherInsideThis THEN DisjointEnclosed ELSE DisjointOutside,
          isTouching, isIntersecting, <<thisInsideOther, otherInsideThis>>)

\* Faulty variant (C1): the touching flag is consulted before the crossing flag.
decideTouchingFirst(vertices, other, isTouching, isIntersecting) ==
  IF isTouching THEN Outcome(Touching, isTouching, isIntersecting, <<>>)
  ELSE IF isIntersecting THEN Outcome(Intersecting, isTouching, isIntersecting, <<>>)
  ELSE containmentOutcome(isTouching, isIntersecting,
                          allInside(vertices, other, 1), allInside(other, vertices, 1))

\* polygon.cpp:185-214: the decision once the two flags are computed.
decide(vertices, other, isTouching, isIntersecting) ==
  IF isIntersecting THEN Outcome(Intersecting, isTouching, isIntersecting, <<>>)
  ELSE IF isTouching THEN Outcome(Touching, isTouching, isIntersecting, <<>>)
  ELSE containmentOutcome(isTouching, isIntersecting,
                          allInside(vertices, other, 1), allInside(other, vertices, 1))

\* Faulty variant (C10): the loop over the other polygon's edges is left out.
touchingFlagOneWay(vertices, other) ==
  LET edges1 == getEdges(vertices)
      edges2 == getEdges(other)
      t1 == vertexOnEdgeLoop(edges1, other, 1, FALSE)
  IN  collinearLoop(edges1, edges2, 1, t1)

touchingFlag(vertices, other) ==
  LET edges1 == getEdges(vertices)
      edges2 == getEdges(other)
      t1 == vertexOnEdgeLoop(edges1, other, 1, FALSE)
      t2 == vertexOnEdgeLoop(edges2, vertices, 1, t1)
  IN  collinearLoop(edges1, edges2, 1, t2)

intersectingFlag(vertices, other) ==
  crossingLoop(getEdges(vertices), getEdges(other), 1, FALSE)

classifyRun(vertices, other) ==
  decide(vertices, other, touchingFlag(vertices, other), intersectingFlag(vertices, other))

classify(vertices, other) == classifyRun(vertices, other).label

(***************************************************************************)
(* classifyPolygons (polygon.c): one fused loop over the edge pairs that    *)
(* never breaks, then the loop over poly2's edges and poly1's vertices.     *)
(* The flags are the pair f = <<isTouching, isIntersecting>>.               *)
(***************************************************************************)
\* The body of the inner loop, polygon.c:149-165, on edges1[i] and edges2[j].
fusedBody(edge1, edge2, vertex2, f) ==
  <<IF areCollinear(edge1, edge2) /\ edgesOverlap(edge1, edge2) THEN TRUE
    ELSE IF segmentContains(edge1, vertex2) THEN TRUE
    ELSE f[1],
    IF interiorCrossing(edge1, edge2) THEN TRUE ELSE f[2]>>

\* The inner loop, polygon.c:148-166, for one edge of poly1.
RECURSIVE fusedInner(_, _, _, _, _)
fusedInner(edge1, edges2, vs2, j, f) ==
  IF j > Len(edges2) THEN f
  ELSE fusedInner(edge1, edges2, vs2, j + 1, fusedBody(edge1, edges2[j], vs2[j], f))

\* The outer loop, polygon.c:147-167; fusedNext goes to the next edge of poly1
\* with the flags f the inner loop left.
RECURSIVE fusedLoop(_, _, _, _, _)
RECURSIVE fusedNext(_, _, _, _, _)

fusedNext(edges1, edges2, vs2, i, f) ==
  IF f[1]
  THEN IF f[2] THEN fusedLoop(edges1, edges2, vs2, i + 1, <<TRUE, TRUE>>)
       ELSE fusedLoop(edges1, edges2, vs2, i + 1, <<TRUE, FALSE>>)
  ELSE IF f[2] THEN fusedLoop(edges1, edges2, vs2, i + 1, <<FALSE, TRUE>>)
       ELSE fusedLoop(edges1, edges2, vs2, i + 1, <<FALSE, FALSE>>)

fusedLoop(edges1, edges2, vs2, i, f) ==
  IF i > Len(edges1) THEN f
  ELSE fusedNext(edges1, edges2, vs2, i, fusedInner(edges1[i], edges2, vs2, 1, f))

\* The inner loop of the second loop, polygon.c:170-174, for one edge of poly2.
RECURSIVE reverseInner(_, _, _, _)
reverseInner(edge2, vs1, j, isTouching) ==
  IF j > Len(vs1) THEN isTouching
  ELSE reverseInner(edge2, vs1, j + 1,
                    IF segmentContains(edge2, vs1[j]) THEN TRUE ELSE isTouching)

\* Faulty variant (C9): the second loop of classifyPolygons is left out.
reverseLoopSkipped(edges2, vs1, i, isTouching) == isTouching

\* The second loop, polygon.c:169-175.
RECURSIVE reverseLoop(_, _, _, _)
reverseLoop(edges2, vs1, i, isTouching) ==
  IF i > Len(edges2) THEN isTouching
  ELSE IF reverseInner(edges2[i], vs1, 1, isTouching)
       THEN reverseLoop(edges2, vs1, i + 1, TRUE)
       ELSE reverseLoop(edges2, vs1, i + 1, FALSE)

\* polygon.c:205-209, for a run that got past the two early returns.
containmentOutcomeC(isTouching, isIntersecting, thisInsideOther, otherInsideThis) ==
  Outcome(IF thisInsideOther \/ otherInsideThis THEN DisjointEnclosed ELSE DisjointOutside,
          isTouching, isIntersecting, <<thisInsideOther, otherInsideThis>>)

\* polygon.c:180-209: the decision once the two flags are computed.
decideC(p1, p2, isTouching, isIntersecting) ==
  IF isIntersecting THEN Outcome(Intersecting, isTouching, isIntersecting, <<>>)
  ELSE IF isTouching THEN Outcome(Touching, isTouching, isIntersecting, <<>>)
  ELSE containmentOutcomeC(isTouching, isIntersecting,
                           allInside(p1, p2, 1), allInside(p2, p1, 1))

\* polygon.c:169-209: from the second loop on, f being the flags after the first.
afterFusedLoop(p1, p2, f) ==
  decideC(p1, p2, reverseLoop(getEdges(p2), p1, 1, f[1]), f[2])

classifyPolygonsRun(p1, p2) ==
  afterFusedLoop(p1, p2, fusedLoop(getEdges(p1), getEdges(p2), p2, 1, <<FALSE, FALSE>>))

classifyPolygons(p1, p2) == classifyPolygonsRun(p1, p2).label

(***************************************************************************)
(* Inputs.  Vertices are lattice points of the grid 0..MaxX by 0..MaxY.    *)
(***************************************************************************)
MaxX == 5
MaxY == 3

P(x, y) == Point(Num(x), Num(y))

InGrid(x, y) == x \in 0..MaxX /\ y \in 0..MaxY

GridPoints == {P(x, y) : x \in 0..MaxX, y \in 0..MaxY}

\* The square on the side from (x, y) to (x + dx, y + dy), counter-clockwise:
\* dy = 0 is axis-aligned, dx = dy a diamond, anything else tilted.
Square(x, y, dx, dy) ==
  <<P(x, y), P(x + dx, y + dy), P(x + dx - dy, y + dy + dx), P(x - dy, y + dx)>>

Squares ==
  {Square(c[1], c[2], c[3], c[4]) :
     c \in {d \in (0..MaxX) \X (0..MaxY) \X (1..MaxY) \X (0..MaxY) :
              /\ InGrid(d[1] + d[3], d[2] + d[4])
              /\ InGrid(d[1] + d[3] - d[4], d[2] + d[4] + d[3])
              /\ InGrid(d[1] - d[4], d[2] + d[3])}}

\* Triangles, two polygons that are not convex, the degenerate quadrilateral of
\* polygon.cpp's main (halved and moved into the grid), a self-crossing
\* quadrilateral, and vertex lists that break the preconditions: empty, one
\* vertex, two vertices, a repeated vertex.
Triangles ==
  {<<P(0, 0), P(2, 0), P(0, 2)>>,
   <<P(0, 1), P(2, 0), P(2, 2)>>,
   <<P(1, 1), P(3, 0), P(2, 3)>>,
   <<P(3, 3), P(4, 1), P(5, 3)>>,
   <<P(2, 1), P(5, 2), P(5, 1)>>}

Dart == <<P(0, 0), P(2, 1), P(4, 0), P(2, 3)>>

LShape == <<P(0, 0), P(2, 0), P(2, 1), P(1, 1), P(1, 2), P(0, 2)>>

MainPolygon2 == <<P(2, 2), P(2, 0), P(0, 0), P(2, 0)>>

BowTie == <<P(0, 0), P(2, 2), P(2, 0), P(0, 2)>>

Malformed ==
  {<<>>, <<P(1, 1)>>, <<P(0, 0), P(2, 1)>>, <<P(0, 0), P(0, 0), P(2, 0), P(0, 2)>>}

Polygons == Squares \cup Triangles \cup {Dart, LShape, MainPolygon2, BowTie} \cup Malformed

Unset == Outcome("", FALSE, FALSE, <<>>)

Idle ==
  /\ called = {}
  /\ relationship = "" /\ flags = Unset
  /\ relationshipC = "" /\ flagsC = Unset
  /\ relationshipRev = ""
  /\ inside = FALSE
  /\ hit12 = <<>> /\ hit21 = <<>>

NoPoint == P(0, 0)
NoSegment == LineSegment(NoPoint, NoPoint)

(***************************************************************************)
(* The classifier on a pair of polygons.                                   *)
(***************************************************************************)
Init ==
  /\ poly1 \in Polygons
  /\ poly2 \in Polygons
  /\ point = NoPoint /\ seg1 = NoSegment /\ seg2 = NoSegment
  /\ Idle

\* polygon.cpp main: relationship = polygon1.classify(polygon2).
Classify ==
  /\ "classify" \notin called
  /\ LET r == classifyRun(poly1, poly2)
     IN  relationship' = r.label /\ flags' = r
  /\ called' = called \cup {"classify"}
  /\ UNCHANGED <<poly1, poly2, relationshipC, flagsC, relationshipRev, point, inside,
                 seg1, seg2, hit12, hit21>>

\* polygon.c main: relationship = classifyPolygons(&poly1, &poly2).
ClassifyPolygons ==
  /\ "classify" \in called
  /\ "classifyPolygons" \notin called
  /\ LET r == classifyPolygonsRun(poly1, poly2)
     IN  relationshipC' = r.label /\ flagsC' = r
  /\ called' = called \cup {"classifyPolygons"}
  /\ UNCHANGED <<poly1, poly2, relationship, flags, relationshipRev, point, inside,
                 seg1, seg2, hit12, hit21>>

\* polygon2.classify(polygon1): the call of main with the two polygons exchanged.
ClassifyReverse ==
  /\ "classify" \in called
  /\ "classifyReverse" \notin called
  /\ relationshipRev' = classify(poly2, poly1)
  /\ called' = called \cup {"classifyReverse"}
  /\ UNCHANGED <<poly1, poly2, relationship, flags, relationshipC, flagsC, point, inside,
                 seg1, seg2, hit12, hit21>>

Next == Classify

Spec == Init /\ [][Next]_vars

NextBoth == Classify \/ ClassifyPolygons

SpecBoth == Init /\ [][NextBoth]_vars

NextReverse == Classify \/ ClassifyReverse

SpecReverse == Init /\ [][NextReverse]_vars

\* A polygon classified against itself.
InitSelf == Init /\ poly2 = poly1

SpecSelf == InitSelf /\ [][NextBoth]_vars

(***************************************************************************)
(* Polygon::contains on a polygon and a point.                             *)
(***************************************************************************)
InitContains ==
  /\ poly1 \in Polygons
  /\ poly2 = <<>>
  /\ point \in GridPoints
  /\ seg1 = NoSegment /\ seg2 = NoSegment
  /\ Idle

Contains ==
  /\ "contains" \notin called
  /\ inside' = polygonContains(poly1, point)
  /\ called' = called \cup {"contains"}
  /\ UNCHANGED <<poly1, poly2, relationship, flags, relationshipC, flagsC, relationshipRev,
                 point, seg1, seg2, hit12, hit21>>

NextContains == Contains

SpecContains == InitContains /\ [][NextContains]_vars

(***************************************************************************)
(* LineSegment::intersection on two segments, in either argument order.    *)
(***************************************************************************)
MaxSeg == 2

SegPoints == {P(x, y) : x \in 0..MaxSeg, y \in 0..MaxSeg}

Segments == {LineSegment(a, b) : a \in SegPoints, b \in SegPoints}

InitSegments ==
  /\ poly1 = <<>> /\ poly2 = <<>> /\ point = NoPoint
  /\ seg1 \in Segments
  /\ seg2 \in Segments
  /\ Idle

Intersect12 ==
  /\ "intersect12" \notin called
  /\ hit12' = segmentIntersection(seg1, seg2)
  /\ called' = called \cup {"intersect12"}
  /\ UNCHANGED <<poly1, poly2, relationship, flags, relationshipC, flagsC, relationshipRev,
                 point, inside, seg1, seg2, hit21>>

Intersect21 ==
  /\ "intersect12" \in called
  /\ "intersect21" \notin called
  /\ hit21' = segmentIntersection(seg2, seg1)
  /\ called' = called \cup {"intersect21"}
  /\ UNCHANGED <<poly1, poly2, relationship, flags, relationshipC, flagsC, relationshipRev,
                 point, inside, seg1, seg2, hit12>>

NextSegments == Intersect12 \/ Intersect21

SpecSegments == InitSegments /\ [][NextSegments]_vars

(***************************************************************************)
(* Plane geometry on lattice points, in exact integer arithmetic.  These   *)
(* definitions say what the claims mean; none of them is taken from the    *)
(* program.                                                                *)
(***************************************************************************)
IX(p) == p.x[1]
IY(p) == p.y[1]
Min(a, b) == IF a <= b THEN a ELSE b
Max(a, b) == IF a >= b THEN a ELSE b

\* Twice the signed area of the triangle o, a, b.
Cross(o, a, b) == (IX(a) - IX(o)) * (IY(b) - IY(o)) - (IY(a) - IY(o)) * (IX(b) - IX(o))

\* q lies on the closed segment from a to b.
OnSegment(a, b, q) ==
  /\ Cross(a, b, q) = 0
  /\ Min(IX(a), IX(b)) <= IX(q) /\ IX(q) <= Max(IX(a), IX(b))
  /\ Min(IY(a), IY(b)) <= IY(q) /\ IY(q) <= Max(IY(a), IY(b))

\* The segments a-b and c-d cross at one point interior to both.
ProperCross(a, b, c, d) ==
  /\ Cross(a, b, c) * Cross(a, b, d) < 0
  /\ Cross(c, d, a) * Cross(c, d, b) < 0

\* The closed segments a-b and c-d have a point in common.
SegmentsMeet(a, b, c, d) ==
  \/ ProperCross(a, b, c, d)
  \/ OnSegment(a, b, c) \/ OnSegment(a, b, d)
  \/ OnSegment(c, d, a) \/ OnSegment(c, d, b)

Succ(vs, i) == (i % Len(vs)) + 1

NoZeroLengthEdge(vs) == \A i \in 1..Len(vs) : vs[i] # vs[Succ(vs, i)]

WellFormed(vs) == Len(vs) >= 3 /\ NoZeroLengthEdge(vs)

\* A simple polygon: edges that are neighbours share their common vertex and
\* nothing else, edges that are not neighbours share nothing.
IsSimple(vs) ==
  LET n == Len(vs) IN
  /\ WellFormed(vs)
  /\ \A i \in 1..n : ~OnSegment(vs[i], vs[Succ(vs, i)], vs[Succ(vs, Succ(vs, i))])
  /\ \A i \in 1..n : ~OnSegment(vs[Succ(vs, i)], vs[Succ(vs, Succ(vs, i))], vs[i])
  /\ \A i \in 1..n : \A j \in 1..n :
       (j # i /\ j # Succ(vs, i) /\ i # Succ(vs, j))
         => ~SegmentsMeet(vs[i], vs[Succ(vs, i)], vs[j], vs[Succ(vs, j)])

OnBoundary(vs, q) == \E i \in 1..Len(vs) : OnSegment(vs[i], vs[Succ(vs, i)], q)

\* Edges crossed by the ray from q towards +x, each edge taken half-open in y so
\* that a vertex on the ray belongs to exactly one of its two edges.
RayCrossings(vs, q) ==
  {i \in 1..Len(vs) :
     LET a == vs[i]
         b == vs[Succ(vs, i)]
     IN  \/ IY(a) <= IY(q) /\ IY(q) < IY(b) /\ Cross(a, b, q) > 0
         \/ IY(b) <= IY(q) /\ IY(q) < IY(a) /\ Cross(a, b, q) < 0}

\* q is in the closed region bounded by the simple polygon vs.
InClosedRegion(vs, q) == OnBoundary(vs, q) \/ Cardinality(RayCrossings(vs, q)) % 2 = 1

BoundariesMeet(A, B) ==
  \E i \in 1..Len(A) : \E j \in 1..Len(B) :
     SegmentsMeet(A[i], A[Succ(A, i)], B[j], B[Succ(B, j)])

BoundariesCross(A, B) ==
  \E i \in 1..Len(A) : \E j \in 1..Len(B) :
     ProperCross(A[i], A[Succ(A, i)], B[j], B[Succ(B, j)])

\* A lies in the region of B and the two boundaries are disjoint.
StrictlyInside(A, B) ==
  /\ \A i \in 1..Len(A) : InClosedRegion(B, A[i])
  /\ ~BoundariesMeet(A, B)

Coords(vs, axis) == {IF axis = "x" THEN IX(vs[i]) ELSE IY(vs[i]) : i \in 1..Len(vs)}

\* The axis-aligned bounding boxes of A and B have no point in common.
BoxesApart(A, B) ==
  \E axis \in {"x", "y"} :
     \/ \A a \in Coords(A, axis) : \A b \in Coords(B, axis) : a < b
     \/ \A a \in Coords(A, axis) : \A b \in Coords(B, axis) : b < a

Classified == "classify" \in called

Edge(vs, i) == LineSegment(vs[i], vs[Succ(vs, i)])

(***************************************************************************)
(* C1.  classify returns one of the four labels, chosen by precedence:     *)
(* Intersecting if some edge of A and some edge of B have a segment         *)
(* intersection point equal to none of the four endpoints; otherwise        *)
(* Touching if a vertex of one polygon lies on an edge of the other or an   *)
(* edge pair is collinear (both ends of B's edge on the line through A's    *)
(* edge) with overlapping extents; otherwise DisjointEnclosed if every      *)
(* vertex of A is contained in B or every vertex of B in A; otherwise       *)
(* DisjointOutside.                                                         *)
(***************************************************************************)
SomeInteriorCrossing(A, B) ==
  \E i \in 1..Len(A) : \E j \in 1..Len(B) :
     LET r == segmentIntersection(Edge(A, i), Edge(B, j))
     IN  /\ r # <<>>
         /\ \A e \in {A[i], A[Succ(A, i)], B[j], B[Succ(B, j)]} : ~pointsEqual(e, r[1])

SomeVertexOnEdge(A, B) ==
  \E i \in 1..Len(A) : \E j \in 1..Len(B) : segmentContains(Edge(A, i), B[j])

SomeCollinearOverlap(A, B) ==
  \E i \in 1..Len(A) : \E j \in 1..Len(B) :
     areCollinear(Edge(A, i), Edge(B, j)) /\ edgesOverlap(Edge(A, i), Edge(B, j))

AllContained(A, B) == \A i \in 1..Len(A) : polygonContains(B, A[i])

PrecedenceLabel(A, B) ==
  IF SomeInteriorCrossing(A, B) THEN Intersecting
  ELSE IF SomeVertexOnEdge(A, B) \/ SomeVertexOnEdge(B, A) \/ SomeCollinearOverlap(A, B)
       THEN Touching
  ELSE IF AllContained(A, B) \/ AllContained(B, A) THEN DisjointEnclosed
  ELSE DisjointOutside

C1_LabelByPrecedence ==
  Classified => relationship \in Labels /\ relationship = PrecedenceLabel(poly1, poly2)

\* A pair that both touches and crosses has been classified: precedence decided.
C1_Witness ==
  /\ Classified
  /\ SomeInteriorCrossing(poly1, poly2)
  /\ SomeVertexOnEdge(poly1, poly2)
  /\ relationship = Intersecting

(***************************************************************************)
(* C2.  contains is a boundary-inclusive point-in-polygon test: for a       *)
(* simple polygon P and a point p it returns true exactly when p is in the  *)
(* interior of P or on one of its edges.                                    *)
(***************************************************************************)
C2_ContainsIsClosedRegion ==
  ("contains" \in called /\ IsSimple(poly1)) => (inside <=> InClosedRegion(poly1, point))

(***************************************************************************)
(* C3.  Two squares, of any orientation, one strictly inside the other      *)
(* with the boundaries sharing no point, are classified DisjointEnclosed,   *)
(* in either argument order.                                                *)
(***************************************************************************)
C3_NestedSquaresEnclosed ==
  (/\ Classified
   /\ poly1 \in Squares /\ poly2 \in Squares
   /\ StrictlyInside(poly1, poly2) \/ StrictlyInside(poly2, poly1))
    => relationship = DisjointEnclosed

(***************************************************************************)
(* C4.  Two simple polygons whose axis-aligned bounding boxes do not        *)
(* overlap are classified DisjointOutside.                                  *)
(***************************************************************************)
C4_BoxesApartOutside ==
  (Classified /\ IsSimple(poly1) /\ IsSimple(poly2) /\ BoxesApart(poly1, poly2))
    => relationship = DisjointOutside

(***************************************************************************)
(* C5.  For two simple polygons, classify returns Touching exactly when     *)
(* the two boundaries share a point and no edge of one crosses an edge of   *)
(* the other at a point interior to both.                                   *)
(***************************************************************************)
C5_TouchingIffContactWithoutCrossing ==
  (Classified /\ IsSimple(poly1) /\ IsSimple(poly2))
    => (relationship = Touching
          <=> (BoundariesMeet(poly1, poly2) /\ ~BoundariesCross(poly1, poly2)))

\* Two unit squares sharing exactly one edge have been classified.
C5_Witness ==
  /\ Classified
  /\ poly1 = Square(0, 0, 1, 0)
  /\ poly2 = Square(1, 0, 1, 0)
  /\ relationship = Touching

(***************************************************************************)
(* C6.  A simple polygon classified against itself is Touching, in both     *)
(* implementations: no pair of its own edges counts as an interior          *)
(* crossing and the touching flag is set.                                   *)
(***************************************************************************)
C6_SelfIsTouching ==
  (IsSimple(poly1) /\ poly2 = poly1)
    => /\ Classified
          => relationship = Touching /\ flags.isTouching /\ ~flags.isIntersecting
       /\ "classifyPolygons" \in called
          => relationshipC = Touching /\ flagsC.isTouching /\ ~flagsC.isIntersecting

\* A tilted square has been classified against itself by both programs.
C6_Witness ==
  /\ "classifyPolygons" \in called
  /\ poly1 = Square(1, 0, 2, 1) /\ poly2 = poly1
  /\ relationship = Touching /\ relationshipC = Touching

(***************************************************************************)
(* C7.  Given a malformed polygon (fewer than 3 vertices, or a repeated     *)
(* vertex making a zero-length edge), classify does not return one of the   *)
(* four labels.                                                             *)
(***************************************************************************)
C7_MalformedIsRejected ==
  (Classified /\ (~WellFormed(poly1) \/ ~WellFormed(poly2))) => relationship \notin Labels

(***************************************************************************)
(* C8.  Segment intersection is symmetric: for two segments with distinct   *)
(* endpoints, intersect(S1, S2) and intersect(S2, S1) both report none or   *)
(* both report the same point.                                              *)
(***************************************************************************)
C8_IntersectionSymmetric ==
  (/\ "intersect21" \in called
   /\ seg1.p1 # seg1.p2 /\ seg2.p1 # seg2.p2)
    => hit12 = hit21

\* Two diagonals have been intersected both ways at a point off the lattice.
C8_Witness ==
  /\ "intersect21" \in called
  /\ seg1.p1 # seg1.p2 /\ seg2.p1 # seg2.p2
  /\ hit12 # <<>> /\ hit12[1].x[2] > 1
  /\ hit21 = hit12

(***************************************************************************)
(* C9.  classifyPolygons (polygon.c) and Polygon::classify (polygon.cpp)    *)
(* return the same label for every pair of polygons, with the same          *)
(* isTouching and isIntersecting flags and the same containment flags.      *)
(***************************************************************************)
C9_ImplementationsAgree ==
  "classifyPolygons" \in called => relationshipC = relationship /\ flagsC = flags

\* Both programs ran on two unit squares sharing an edge: the shared edge holds
\* two vertices of the other square, so the break of the C++ loop skips a hit
\* that the C loop goes on to make.
C9_Witness ==
  /\ "classifyPolygons" \in called
  /\ poly1 = Square(0, 0, 1, 0) /\ poly2 = Square(1, 0, 1, 0)
  /\ relationshipC = Touching
  /\ flagsC = flags

====
